---- MODULE Spec2Model ----
(***************************************************************************)
(* Model of onefuzz-task's tasks/config.rs: the configuration loader       *)
(* (Config::from_file), the start event (Config::report_event) and the     *)
(* bootstrap-and-dispatch sequence (Config::run), for the linux/windows    *)
(* build (all fourteen variants of Config are compiled in).                *)
(*                                                                         *)
(* An Option<T> is modelled as a set with at most one element:             *)
(* None is {} and Some(x) is {x}.                                          *)
(***************************************************************************)
EXTENDS Integers, Sequences, FiniteSets, TLC

None == {}
Some(x) == {x}
Unwrap(o) == CHOOSE x \in o : TRUE

\* ------------------------------------------------------------------------
\* Bounds of the model
\* ------------------------------------------------------------------------
NumIds == 2

\* ------------------------------------------------------------------------
\* Constants of the program
\* ------------------------------------------------------------------------
DEFAULT_MIN_AVAILABLE_MEMORY_MB == 100

default_min_available_memory_mb == DEFAULT_MIN_AVAILABLE_MEMORY_MB

\* PathBuf::default(), the value #[serde(default)] gives setup_dir
EmptyPath == ""

\* the fixed string sent on the task->agent channel
Placeholder == "hiiiii"

\* ------------------------------------------------------------------------
\* enum Config: the variant, its serde alias and the module of its payload
\* ------------------------------------------------------------------------
VariantTable ==
  << [name |-> "Coverage",            alias |-> "coverage",
      payload |-> "coverage::generic"],
     [name |-> "DotnetCoverage",      alias |-> "dotnet_coverage",
      payload |-> "coverage::dotnet"],
     [name |-> "DotnetCrashReport",   alias |-> "dotnet_crash_report",
      payload |-> "report::dotnet::generic"],
     [name |-> "LibFuzzerDotnetFuzz", alias |-> "libfuzzer_dotnet_fuzz",
      payload |-> "fuzz::libfuzzer::dotnet"],
     [name |-> "LibFuzzerFuzz",       alias |-> "libfuzzer_fuzz",
      payload |-> "fuzz::libfuzzer::generic"],
     [name |-> "LibFuzzerReport",     alias |-> "libfuzzer_crash_report",
      payload |-> "report::libfuzzer_report"],
     [name |-> "LibFuzzerMerge",      alias |-> "libfuzzer_merge",
      payload |-> "merge::libfuzzer_merge"],
     [name |-> "LibFuzzerRegression", alias |-> "libfuzzer_regression",
      payload |-> "regression::libfuzzer"],
     [name |-> "GenericAnalysis",     alias |-> "generic_analysis",
      payload |-> "analysis::generic"],
     [name |-> "GenericGenerator",    alias |-> "generic_generator",
      payload |-> "fuzz::generator"],
     [name |-> "GenericSupervisor",   alias |-> "generic_supervisor",
      payload |-> "fuzz::supervisor"],
     [name |-> "GenericMerge",        alias |-> "generic_merge",
      payload |-> "merge::generic"],
     [name |-> "GenericReport",       alias |-> "generic_crash_report",
      payload |-> "report::generic"],
     [name |-> "GenericRegression",   alias |-> "generic_regression",
      payload |-> "regression::generic"] >>

Variants == { VariantTable[i].name : i \in DOMAIN VariantTable }

KnownTags == Variants \cup { VariantTable[i].alias : i \in DOMAIN VariantTable }

\* strings that are no tag and no alias (the match is case-sensitive)
UnknownTags == { "COVERAGE", "libfuzzer", "genericAnalysis" }

\* a lookup that ignores the case of one tag
VariantsTaggedAnyCase(tag) ==
  IF tag = "COVERAGE" THEN { "Coverage" }
  ELSE { VariantTable[i].name : i \in { j \in DOMAIN VariantTable :
           VariantTable[j].name = tag \/ VariantTable[j].alias = tag } }

\* the serde tag lookup: the variants whose name or alias is the string
VariantsTagged(tag) ==
  { VariantTable[i].name : i \in { j \in DOMAIN VariantTable :
        VariantTable[j].name = tag \/ VariantTable[j].alias = tag } }

PayloadModule(v) ==
  VariantTable[CHOOSE i \in DOMAIN VariantTable : VariantTable[i].name = v].payload

\* ------------------------------------------------------------------------
\* The document on disk and the caller's arguments
\* ------------------------------------------------------------------------
Ids == 1 .. NumIds
Paths == { "/onefuzz/setup", "/doc/setup" }
Exes == { "tool.exe", "gen.exe" }
MemValues == { 0, DEFAULT_MIN_AVAILABLE_MEMORY_MB, DEFAULT_MIN_AVAILABLE_MEMORY_MB + 1 }
Opt(S) == { None } \cup { Some(x) : x \in S }

\* The four UUIDs of a document are pairwise distinct
IdAssignments ==
  { [ job_id |-> j, task_id |-> NumIds + j, instance_id |-> 2 * NumIds + j,
      machine_id |-> 3 * NumIds + j ] : j \in Ids }

\* The "common" object of a document.  job_id stands for the required
\* fields (a document without it does not match CommonConfig); the
\* telemetry keys and logs are optional pass-through fields and are left out.
DocCommons(ids, jobPresent, dirs, mems, scalesets, queues, a2ts, t2as) ==
  { [ job_id |-> IF p THEN Some(a.job_id) ELSE None,
      task_id |-> a.task_id,
      instance_id |-> a.instance_id,
      heartbeat_queue |-> o[1],
      setup_dir |-> d,
      min_available_memory_mb |-> m,
      machine_identity |-> [ machine_id |-> a.machine_id, scaleset_name |-> o[2] ],
      from_agent_to_task_endpoint |-> o[3],
      from_task_to_agent_endpoint |-> o[4] ] :
    a \in ids, p \in jobPresent, d \in dirs, m \in mems,
    o \in queues \X scalesets \X a2ts \X t2as }

Queues == Opt({"https://queue"})
Scalesets == Opt({"scaleset-1"})
A2TEndpoints == Opt({"a2t-server"})
T2AEndpoints == Opt({"t2a-server"})

\* kind: "unreadable" (read_to_string fails), "notjson" (from_str fails),
\* "json" (a JSON value).  payload_ok: the kind-specific fields match the
\* shape the variant's payload struct expects.  exe: the analyzer_exe or
\* generator_exe field of the document.
JsonDocs(tags, oks, exes, commons) ==
  [ kind : {"json"}, task_type : tags, payload_ok : oks, exe : exes,
    common : commons ]

AnyCommon ==
  CHOOSE c \in DocCommons(IdAssignments, {TRUE}, {None}, {None}, {None},
                          {None}, {None}, {None}) : TRUE

NonJsonDocs ==
  [ kind : {"unreadable", "notjson"}, task_type : {None}, payload_ok : {FALSE},
    exe : {"tool.exe"}, common : {AnyCommon} ]

AllTags == Opt(KnownTags \cup UnknownTags)

\* every document the loader is checked on
LoadDocs ==
  NonJsonDocs \cup
  JsonDocs(AllTags, BOOLEAN, Exes,
           DocCommons(IdAssignments, BOOLEAN, Opt(Paths), Opt(MemValues),
                      Scalesets, Queues, A2TEndpoints, T2AEndpoints))

\* the documents the whole bootstrap is run on
RunDocs ==
  NonJsonDocs \cup
  JsonDocs(AllTags, {TRUE}, Exes,
           DocCommons(IdAssignments, {TRUE}, {Some("/doc/setup")}, {None},
                      Scalesets, Queues, A2TEndpoints, T2AEndpoints)) \cup
  JsonDocs({Some("libfuzzer_fuzz")}, BOOLEAN, {"tool.exe"},
           DocCommons(IdAssignments, BOOLEAN, {None}, {None},
                      {None}, {None}, {None}, {None}))

\* ------------------------------------------------------------------------
\* Deserialization (serde, derive(Deserialize))
\* ------------------------------------------------------------------------
Ok(v) == [ ok |-> TRUE, value |-> v ]
Err(e) == [ ok |-> FALSE, error |-> e ]

\* a CommonConfig whose optional endpoint fields are not read
DeserializeCommonNoEndpoints(c) ==
  [ job_id |-> Unwrap(c.job_id),
    task_id |-> c.task_id,
    instance_id |-> c.instance_id,
    heartbeat_queue |-> c.heartbeat_queue,
    setup_dir |-> IF c.setup_dir = None THEN EmptyPath ELSE Unwrap(c.setup_dir),
    min_available_memory_mb |->
        IF c.min_available_memory_mb = None
        THEN default_min_available_memory_mb
        ELSE Unwrap(c.min_available_memory_mb),
    machine_identity |-> c.machine_identity,
    from_agent_to_task_endpoint |-> None,
    from_task_to_agent_endpoint |-> None ]

\* a CommonConfig that takes a min_available_memory_mb of 0 as not given
DeserializeCommonZeroIsDefault(c) ==
  [ job_id |-> Unwrap(c.job_id),
    task_id |-> c.task_id,
    instance_id |-> c.instance_id,
    heartbeat_queue |-> c.heartbeat_queue,
    setup_dir |-> IF c.setup_dir = None THEN EmptyPath ELSE Unwrap(c.setup_dir),
    min_available_memory_mb |->
        IF c.min_available_memory_mb = None \/ c.min_available_memory_mb = Some(0)
        THEN default_min_available_memory_mb
        ELSE Unwrap(c.min_available_memory_mb),
    machine_identity |-> c.machine_identity,
    from_agent_to_task_endpoint |-> c.from_agent_to_task_endpoint,
    from_task_to_agent_endpoint |-> c.from_task_to_agent_endpoint ]

\* struct CommonConfig, from the document's "common" object
DeserializeCommon(c) ==
  [ job_id |-> Unwrap(c.job_id),
    task_id |-> c.task_id,
    instance_id |-> c.instance_id,
    heartbeat_queue |-> c.heartbeat_queue,
    setup_dir |-> IF c.setup_dir = None THEN EmptyPath ELSE Unwrap(c.setup_dir),
    min_available_memory_mb |->
        IF c.min_available_memory_mb = None
        THEN default_min_available_memory_mb
        ELSE Unwrap(c.min_available_memory_mb),
    machine_identity |-> c.machine_identity,
    from_agent_to_task_endpoint |-> c.from_agent_to_task_endpoint,
    from_task_to_agent_endpoint |-> c.from_task_to_agent_endpoint ]

\* enum Config, internally tagged by "task_type"
DeserializeConfig(d) ==
  IF d.task_type = None THEN Err("schema: missing field task_type")
  ELSE IF VariantsTagged(Unwrap(d.task_type)) = {} THEN Err("schema: unknown variant")
  ELSE IF ~d.payload_ok \/ d.common.job_id = None THEN Err("schema: payload")
  ELSE Ok([ variant |-> CHOOSE v \in VariantsTagged(Unwrap(d.task_type)) : TRUE,
            payload |-> [ common |-> DeserializeCommon(d.common), exe |-> d.exe ] ])

\* Config::common and Config::common_mut: every arm is the payload's common
common(self) == self.payload.common

\* an override that is applied only when the document gave no setup_dir
common_mut_set_setup_dir_if_empty(self, dir) ==
  IF self.payload.common.setup_dir = EmptyPath
  THEN [ self EXCEPT !.payload.common.setup_dir = dir ]
  ELSE self

common_mut_set_setup_dir(self, dir) ==
  [ self EXCEPT !.payload.common.setup_dir = dir ]

\* Config::from_file as a function of the document and of setup_dir
from_file(d, dir) ==
  IF d.kind = "unreadable" THEN Err("io")
  ELSE IF d.kind = "notjson" THEN Err("json")
  ELSE LET parsed == DeserializeConfig(d)
       IN  IF ~parsed.ok THEN parsed
           ELSE Ok(common_mut_set_setup_dir(parsed.value, dir))

\* ------------------------------------------------------------------------
\* Config::report_event
\* ------------------------------------------------------------------------
EventType(v) ==
  CASE v = "Coverage"            -> "coverage"
    [] v = "DotnetCoverage"      -> "dotnet_coverage"
    [] v = "DotnetCrashReport"   -> "dotnet_crash_report"
    [] v = "LibFuzzerDotnetFuzz" -> "libfuzzer_fuzz"
    [] v = "LibFuzzerFuzz"       -> "libfuzzer_fuzz"
    [] v = "LibFuzzerMerge"      -> "libfuzzer_merge"
    [] v = "LibFuzzerReport"     -> "libfuzzer_crash_report"
    [] v = "LibFuzzerRegression" -> "libfuzzer_regression"
    [] v = "GenericAnalysis"     -> "generic_analysis"
    [] v = "GenericMerge"        -> "generic_merge"
    [] v = "GenericReport"       -> "generic_crash_report"
    [] v = "GenericSupervisor"   -> "generic_supervisor"
    [] v = "GenericGenerator"    -> "generic_generator"
    [] v = "GenericRegression"   -> "generic_regression"

\* an event that forgets the tool of the analysis task
report_event_generator_only(self) ==
  CASE self.variant = "GenericGenerator" ->
         [ event |-> "task_start", type |-> EventType(self.variant),
           tool_name |-> Some(self.payload.exe) ]
    [] OTHER ->
         [ event |-> "task_start", type |-> EventType(self.variant),
           tool_name |-> None ]

\* the task_start event: Type always, ToolName for two variants
report_event(self) ==
  CASE self.variant = "GenericGenerator" ->
         [ event |-> "task_start", type |-> EventType(self.variant),
           tool_name |-> Some(self.payload.exe) ]
    [] self.variant = "GenericAnalysis" ->
         [ event |-> "task_start", type |-> EventType(self.variant),
           tool_name |-> Some(self.payload.exe) ]
    [] OTHER ->
         [ event |-> "task_start", type |-> EventType(self.variant),
           tool_name |-> None ]

\* ------------------------------------------------------------------------
\* The match of Config::run: the runner each arm calls, how it is entered
\* and whether its construction can fail (the `?` after new)
\* ------------------------------------------------------------------------
\* a match whose two report arms call each other's runner
RunnerArmReportsSwapped(v) ==
  CASE v = "LibFuzzerReport" ->
         [ runner |-> "report::generic", entry |-> "new.managed_run", fallible |-> FALSE ]
    [] v = "GenericReport" ->
         [ runner |-> "report::libfuzzer_report", entry |-> "new.managed_run", fallible |-> FALSE ]
    [] OTHER ->
         [ runner |-> PayloadModule(v), entry |-> "new.run", fallible |-> FALSE ]

RunnerArm(v) ==
  CASE v = "Coverage" ->
         [ runner |-> "coverage::generic", entry |-> "new.run", fallible |-> FALSE ]
    [] v = "DotnetCoverage" ->
         [ runner |-> "coverage::dotnet", entry |-> "new.run", fallible |-> FALSE ]
    [] v = "DotnetCrashReport" ->
         [ runner |-> "report::dotnet::generic", entry |-> "new.run", fallible |-> FALSE ]
    [] v = "LibFuzzerDotnetFuzz" ->
         [ runner |-> "fuzz::libfuzzer::dotnet", entry |-> "new.run", fallible |-> TRUE ]
    [] v = "LibFuzzerFuzz" ->
         [ runner |-> "fuzz::libfuzzer::generic", entry |-> "new.run", fallible |-> TRUE ]
    [] v = "LibFuzzerReport" ->
         [ runner |-> "report::libfuzzer_report", entry |-> "new.managed_run", fallible |-> FALSE ]
    [] v = "LibFuzzerMerge" ->
         [ runner |-> "merge::libfuzzer_merge", entry |-> "spawn", fallible |-> FALSE ]
    [] v = "GenericAnalysis" ->
         [ runner |-> "analysis::generic", entry |-> "run", fallible |-> FALSE ]
    [] v = "GenericGenerator" ->
         [ runner |-> "fuzz::generator", entry |-> "new.run", fallible |-> FALSE ]
    [] v = "GenericSupervisor" ->
         [ runner |-> "fuzz::supervisor", entry |-> "spawn", fallible |-> FALSE ]
    [] v = "GenericMerge" ->
         [ runner |-> "merge::generic", entry |-> "spawn", fallible |-> FALSE ]
    [] v = "GenericReport" ->
         [ runner |-> "report::generic", entry |-> "new.managed_run", fallible |-> FALSE ]
    [] v = "GenericRegression" ->
         [ runner |-> "regression::generic", entry |-> "new.run", fallible |-> FALSE ]
    [] v = "LibFuzzerRegression" ->
         [ runner |-> "regression::libfuzzer", entry |-> "new.run", fallible |-> FALSE ]

\* ------------------------------------------------------------------------
\* CommonConfig::init_heartbeat, given whether the transport can be reached
\* ------------------------------------------------------------------------
\* an init_heartbeat for which a missing heartbeat_queue is an error
init_heartbeat_absent_is_error(c, reachable) ==
  IF c.heartbeat_queue = None
  THEN [ ok |-> FALSE, client |-> None, attempts |-> 0 ]
  ELSE IF reachable
       THEN [ ok |-> TRUE, client |-> Some(Unwrap(c.heartbeat_queue)), attempts |-> 1 ]
       ELSE [ ok |-> FALSE, client |-> None, attempts |-> 1 ]

init_heartbeat(c, reachable) ==
  IF c.heartbeat_queue = None
  THEN [ ok |-> TRUE, client |-> None, attempts |-> 0 ]
  ELSE IF reachable
       THEN [ ok |-> TRUE, client |-> Some(Unwrap(c.heartbeat_queue)), attempts |-> 1 ]
       ELSE [ ok |-> FALSE, client |-> None, attempts |-> 1 ]

\* ------------------------------------------------------------------------
\* State
\* ------------------------------------------------------------------------
VARIABLES
  doc,        \* the document at `path`
  setup_dir,  \* the caller's setup_dir argument
  pc,         \* position of the bootstrap
  config,     \* Option<Config>: the value from_file returned
  result,     \* outcome of the process: "none", "ok", "err", "panic"
  props,      \* telemetry::set_property calls, in order
  handles,    \* who holds each channel handle
  queue,      \* messages in flight on the task->agent channel
  seen,       \* messages the parent has received on the task->agent channel
  events,     \* telemetry events emitted, in order
  arm,        \* Option: the arm of the match that was entered, with the
              \* payload it binds
  invoked,    \* the runners called by the arm, in order
  outcome,    \* Option: what the runner returned
  hb,         \* heartbeat: calls of init_heartbeat, transport attempts,
              \* clients, and what each call returned
  log         \* the steps taken so far, in order

vars == << doc, setup_dir, pc, config, result, props, handles, queue, seen,
           events, arm, invoked, outcome, hb, log >>

runVars == << props, handles, queue, seen, events, arm, invoked, outcome, hb, log >>

HandleNames == { "agent_sender", "receive_from_agent", "task_sender", "receive_from_task" }

InitRest ==
  /\ pc = "unstarted"
  /\ config = None
  /\ result = "none"
  /\ props = << >>
  /\ handles = [ h \in HandleNames |-> "none" ]
  /\ queue = << >>
  /\ seen = << >>
  /\ events = << >>
  /\ arm = None
  /\ invoked = << >>
  /\ outcome = None
  /\ hb = [ calls |-> 0, attempts |-> 0, clients |-> 0, returned |-> << >> ]
  /\ log = << >>

InitLoad ==
  /\ doc \in LoadDocs
  /\ setup_dir \in Paths
  /\ InitRest

Init ==
  /\ doc \in RunDocs
  /\ setup_dir \in { "/onefuzz/setup" }
  /\ InitRest

Step(name, ok) == [ step |-> name, ok |-> ok ]

\* a panic unwinds the stack: the handles this process holds are dropped
Panic ==
  /\ pc' = "done"
  /\ result' = "panic"

\* an unwinding that also takes back the handles already given to the parent
DropLocalsAndRevoke(hs) ==
  [ h \in HandleNames |-> IF hs[h] \in { "task", "parent" } THEN "dropped" ELSE hs[h] ]

DropLocals(hs) == [ h \in HandleNames |-> IF hs[h] = "task" THEN "dropped" ELSE hs[h] ]

\* the caller loads the configuration: Config::from_file(path, setup_dir)
LoadFile ==
  /\ pc = "unstarted"
  /\ LET r == from_file(doc, setup_dir)
     IN  IF r.ok
         THEN /\ config' = Some(r.value)
              /\ pc' = "configured"
              /\ result' = result
         ELSE /\ config' = None
              /\ pc' = "done"
              /\ result' = "err"
  /\ log' = Append(log, Step("from_file", pc' = "configured"))
  /\ UNCHANGED << doc, setup_dir, props, handles, queue, seen, events, arm,
                  invoked, outcome, hb >>

Cfg == Unwrap(config)

\* properties with a ScalesetId even when there is no scaleset name
TelemetryPropertiesScalesetAlways(c) ==
  << [ key |-> "JobId", value |-> c.job_id ],
     [ key |-> "TaskId", value |-> c.task_id ],
     [ key |-> "MachineId", value |-> c.machine_identity.machine_id ],
     [ key |-> "Version", value |-> "ONEFUZZ_VERSION" ],
     [ key |-> "InstanceId", value |-> c.instance_id ],
     [ key |-> "Role", value |-> "Agent" ],
     [ key |-> "ScalesetId",
       value |-> IF c.machine_identity.scaleset_name # None
                 THEN Unwrap(c.machine_identity.scaleset_name) ELSE "" ] >>

\* Config::run, telemetry::set_property calls
TelemetryProperties(c) ==
  << [ key |-> "JobId", value |-> c.job_id ],
     [ key |-> "TaskId", value |-> c.task_id ],
     [ key |-> "MachineId", value |-> c.machine_identity.machine_id ],
     [ key |-> "Version", value |-> "ONEFUZZ_VERSION" ],
     [ key |-> "InstanceId", value |-> c.instance_id ],
     [ key |-> "Role", value |-> "Agent" ] >>
  \o (IF c.machine_identity.scaleset_name # None
      THEN << [ key |-> "ScalesetId", value |-> Unwrap(c.machine_identity.scaleset_name) ] >>
      ELSE << >>)

\* a telemetry step that takes the scaleset name out of the configuration
SetTelemetryTakesScaleset ==
  /\ pc = "configured"
  /\ props' = props \o TelemetryProperties(common(Cfg))
  /\ config' = Some([ Cfg EXCEPT !.payload.common.machine_identity.scaleset_name = None ])
  /\ pc' = "a2t"
  /\ log' = Append(log, Step("set_properties", TRUE))
  /\ UNCHANGED << doc, setup_dir, result, handles, queue, seen, events,
                  arm, invoked, outcome, hb >>

SetTelemetry ==
  /\ pc = "configured"
  /\ props' = props \o TelemetryProperties(common(Cfg))
  /\ pc' = "a2t"
  /\ log' = Append(log, Step("set_properties", TRUE))
  /\ UNCHANGED << doc, setup_dir, config, result, handles, queue, seen, events,
                  arm, invoked, outcome, hb >>

\* ---- agent -> task ----------------------------------------------------
\* from_agent_to_task_endpoint is None: the block is not entered
A2TSkip ==
  /\ pc = "a2t"
  /\ common(Cfg).from_agent_to_task_endpoint = None
  /\ pc' = "t2a"
  /\ UNCHANGED << doc, setup_dir, config, result, runVars >>

\* ipc::channel().unwrap()
A2TChannel ==
  /\ pc = "a2t"
  /\ common(Cfg).from_agent_to_task_endpoint # None
  /\ \E ok \in BOOLEAN :
       /\ log' = Append(log, Step("a2t_channel", ok))
       /\ IF ok
          THEN /\ handles' = [ handles EXCEPT !["agent_sender"] = "task",
                                              !["receive_from_agent"] = "task" ]
               /\ pc' = "a2t_connect"
               /\ result' = result
          ELSE /\ handles' = DropLocals(handles)
               /\ Panic
  /\ UNCHANGED << doc, setup_dir, config, props, queue, seen, events, arm,
                  invoked, outcome, hb >>

\* a connect whose failure is logged and not acted on
A2TConnectFailureIgnored ==
  /\ pc = "a2t_connect"
  /\ \E ok \in BOOLEAN :
       /\ log' = Append(log, Step("a2t_connect", ok))
       /\ pc' = "a2t_send"
       /\ UNCHANGED << handles, result >>
  /\ UNCHANGED << doc, setup_dir, config, props, queue, seen, events, arm,
                  invoked, outcome, hb >>

\* IpcSender::connect(from_agent_to_task_endpoint.clone()).unwrap()
A2TConnect ==
  /\ pc = "a2t_connect"
  /\ \E ok \in BOOLEAN :
       /\ log' = Append(log, Step("a2t_connect", ok))
       /\ IF ok
          THEN /\ pc' = "a2t_send"
               /\ UNCHANGED << handles, result >>
          ELSE /\ handles' = DropLocals(handles)
               /\ Panic
  /\ UNCHANGED << doc, setup_dir, config, props, queue, seen, events, arm,
                  invoked, outcome, hb >>

\* a transmission whose failure is logged and not acted on
A2TSendFailureIgnored ==
  /\ pc = "a2t_send"
  /\ \E ok \in BOOLEAN :
       /\ log' = Append(log, Step("a2t_send", ok))
       /\ handles' = [ handles EXCEPT
                         !["agent_sender"] = IF ok THEN "parent" ELSE "dropped",
                         !["receive_from_agent"] = "dropped" ]
       /\ pc' = "t2a"
       /\ result' = result
  /\ UNCHANGED << doc, setup_dir, config, props, queue, seen, events, arm,
                  invoked, outcome, hb >>

\* oneshot_sender.send(agent_sender).unwrap(); the block ends and
\* receive_from_agent goes out of scope
A2TSend ==
  /\ pc = "a2t_send"
  /\ \E ok \in BOOLEAN :
       /\ log' = Append(log, Step("a2t_send", ok))
       /\ IF ok
          THEN /\ handles' = [ handles EXCEPT !["agent_sender"] = "parent",
                                              !["receive_from_agent"] = "dropped" ]
               /\ pc' = "t2a"
               /\ result' = result
          ELSE /\ handles' = DropLocals(handles)
               /\ Panic
  /\ UNCHANGED << doc, setup_dir, config, props, queue, seen, events, arm,
                  invoked, outcome, hb >>

\* ---- task -> agent ----------------------------------------------------
T2ASkip ==
  /\ pc = "t2a"
  /\ common(Cfg).from_task_to_agent_endpoint = None
  /\ pc' = "report"
  /\ UNCHANGED << doc, setup_dir, config, result, runVars >>

\* a block that is entered whether or not the endpoint is set
T2AChannelUnconditional ==
  /\ pc = "t2a"
  /\ \E ok \in BOOLEAN :
       /\ log' = Append(log, Step("t2a_channel", ok))
       /\ IF ok
          THEN /\ handles' = [ handles EXCEPT !["task_sender"] = "task",
                                              !["receive_from_task"] = "task" ]
               /\ pc' = "t2a_connect"
               /\ result' = result
          ELSE /\ handles' = DropLocals(handles)
               /\ Panic
  /\ UNCHANGED << doc, setup_dir, config, props, queue, seen, events, arm,
                  invoked, outcome, hb >>

T2AChannel ==
  /\ pc = "t2a"
  /\ common(Cfg).from_task_to_agent_endpoint # None
  /\ \E ok \in BOOLEAN :
       /\ log' = Append(log, Step("t2a_channel", ok))
       /\ IF ok
          THEN /\ handles' = [ handles EXCEPT !["task_sender"] = "task",
                                              !["receive_from_task"] = "task" ]
               /\ pc' = "t2a_connect"
               /\ result' = result
          ELSE /\ handles' = DropLocals(handles)
               /\ Panic
  /\ UNCHANGED << doc, setup_dir, config, props, queue, seen, events, arm,
                  invoked, outcome, hb >>

\* a connect whose failure is logged and not acted on
T2AConnectFailureIgnored ==
  /\ pc = "t2a_connect"
  /\ \E ok \in BOOLEAN :
       /\ log' = Append(log, Step("t2a_connect", ok))
       /\ pc' = "t2a_send"
       /\ UNCHANGED << handles, result >>
  /\ UNCHANGED << doc, setup_dir, config, props, queue, seen, events, arm,
                  invoked, outcome, hb >>

T2AConnect ==
  /\ pc = "t2a_connect"
  /\ \E ok \in BOOLEAN :
       /\ log' = Append(log, Step("t2a_connect", ok))
       /\ IF ok
          THEN /\ pc' = "t2a_send"
               /\ UNCHANGED << handles, result >>
          ELSE /\ handles' = DropLocals(handles)
               /\ Panic
  /\ UNCHANGED << doc, setup_dir, config, props, queue, seen, events, arm,
                  invoked, outcome, hb >>

\* a transmission that, when it fails, connects and sends once more
T2ASendRetried ==
  /\ pc = "t2a_send"
  /\ \E ok \in BOOLEAN :
       /\ log' = Append(log, Step("t2a_send", ok))
       /\ IF ok
          THEN /\ handles' = [ handles EXCEPT !["receive_from_task"] = "parent" ]
               /\ pc' = "t2a_hello"
               /\ result' = result
          ELSE IF Len(SelectSeq(log, LAMBDA e : e.step = "t2a_send")) = 0
               THEN /\ pc' = "t2a_connect"
                    /\ UNCHANGED << handles, result >>
               ELSE /\ handles' = DropLocals(handles)
                    /\ Panic
  /\ UNCHANGED << doc, setup_dir, config, props, queue, seen, events, arm,
                  invoked, outcome, hb >>

\* oneshot_receiver.send(receive_from_task).unwrap()
T2ASend ==
  /\ pc = "t2a_send"
  /\ \E ok \in BOOLEAN :
       /\ log' = Append(log, Step("t2a_send", ok))
       /\ IF ok
          THEN /\ handles' = [ handles EXCEPT !["receive_from_task"] = "parent" ]
               /\ pc' = "t2a_hello"
               /\ result' = result
          ELSE /\ handles' = DropLocals(handles)
               /\ Panic
  /\ UNCHANGED << doc, setup_dir, config, props, queue, seen, events, arm,
                  invoked, outcome, hb >>

\* a placeholder whose send is unwrapped like the sends before it
T2AHelloUnwrapped ==
  /\ pc = "t2a_hello"
  /\ LET ok == handles["receive_from_task"] = "parent"
     IN  /\ log' = Append(log, Step("t2a_hello", ok))
         /\ queue' = IF ok THEN Append(queue, Placeholder) ELSE queue
         /\ IF ok
            THEN /\ handles' = [ handles EXCEPT !["task_sender"] = "dropped" ]
                 /\ pc' = "report"
                 /\ result' = result
            ELSE /\ handles' = DropLocals(handles)
                 /\ Panic
  /\ UNCHANGED << doc, setup_dir, config, props, seen, events, arm,
                  invoked, outcome, hb >>

\* a placeholder that is sent twice
T2AHelloTwice ==
  /\ pc = "t2a_hello"
  /\ LET ok == handles["receive_from_task"] = "parent"
     IN  /\ log' = log \o << Step("t2a_hello", ok), Step("t2a_hello", ok) >>
         /\ queue' = IF ok THEN queue \o << Placeholder, Placeholder >> ELSE queue
  /\ handles' = [ handles EXCEPT !["task_sender"] = "dropped" ]
  /\ pc' = "report"
  /\ UNCHANGED << doc, setup_dir, config, result, props, seen, events, arm,
                  invoked, outcome, hb >>

\* task_sender.send("hiiiii".to_string()); the Result is not used.  The send
\* fails when the receiving end is closed.  The block ends and task_sender
\* goes out of scope.
T2AHello ==
  /\ pc = "t2a_hello"
  /\ LET ok == handles["receive_from_task"] = "parent"
     IN  /\ log' = Append(log, Step("t2a_hello", ok))
         /\ queue' = IF ok THEN Append(queue, Placeholder) ELSE queue
  /\ handles' = [ handles EXCEPT !["task_sender"] = "dropped" ]
  /\ pc' = "report"
  /\ UNCHANGED << doc, setup_dir, config, result, props, seen, events, arm,
                  invoked, outcome, hb >>

\* ---- the parent process ------------------------------------------------
\* the parent reads a message with the consumer handle it was sent
ParentRecv ==
  /\ handles["receive_from_task"] = "parent"
  /\ queue # << >>
  /\ seen' = Append(seen, Head(queue))
  /\ queue' = Tail(queue)
  /\ UNCHANGED << doc, setup_dir, pc, config, result, props, handles, events,
                  arm, invoked, outcome, hb, log >>

\* the parent closes the consumer handle it was sent
ParentDrop ==
  /\ handles["receive_from_task"] = "parent"
  /\ handles' = [ handles EXCEPT !["receive_from_task"] = "dropped" ]
  /\ UNCHANGED << doc, setup_dir, pc, config, result, props, queue, seen,
                  events, arm, invoked, outcome, hb, log >>

\* ---- dispatch -----------------------------------------------------------
\* self.report_event()
ReportEvent ==
  /\ pc = "report"
  /\ events' = Append(events, report_event(Cfg))
  /\ log' = Append(log, Step("task_start", TRUE))
  /\ pc' = "dispatch"
  /\ UNCHANGED << doc, setup_dir, config, result, props, handles, queue, seen,
                  arm, invoked, outcome, hb >>

\* match self: the arm of the active variant is entered and binds the
\* payload of the variant (`config`), which it hands to the runner
Dispatch ==
  /\ pc = "dispatch"
  /\ arm' = Some(RunnerArm(Cfg.variant) @@ [ config |-> Cfg.payload ])
  /\ log' = Append(log, Step("dispatch", TRUE))
  /\ pc' = "arm"
  /\ UNCHANGED << doc, setup_dir, config, result, props, handles, queue, seen,
                  events, invoked, outcome, hb >>

\* an arm that goes on to run after a failed construction
InvokeConstructionErrorIgnored ==
  /\ pc = "arm"
  /\ invoked' = Append(invoked, Unwrap(arm).runner)
  /\ \E ok \in { TRUE } \cup { ~Unwrap(arm).fallible } :
       /\ log' = Append(log, Step("invoke", ok))
       /\ pc' = "running"
       /\ UNCHANGED << result, outcome >>
  /\ UNCHANGED << doc, setup_dir, config, props, handles, queue, seen, events,
                  arm, hb >>

\* the arm calls its runner: the constructor (with `?` for the two
\* libfuzzer fuzz tasks), then run / managed_run, or the spawn / run function
Invoke ==
  /\ pc = "arm"
  /\ invoked' = Append(invoked, Unwrap(arm).runner)
  /\ \E ok \in { TRUE } \cup { ~Unwrap(arm).fallible } :
       /\ log' = Append(log, Step("invoke", ok))
       /\ IF ok
          THEN /\ pc' = "running"
               /\ UNCHANGED << result, outcome >>
          ELSE /\ pc' = "done"
               /\ outcome' = Some("err")
               /\ result' = "err"
  /\ UNCHANGED << doc, setup_dir, config, props, handles, queue, seen, events,
                  arm, hb >>

\* the runner, while it runs, asks for its heartbeat client
RunnerInitHeartbeat ==
  /\ pc = "running"
  /\ hb.calls = 0
  /\ \E reachable \in BOOLEAN :
       LET r == init_heartbeat(common(Cfg), reachable)
       IN  hb' = [ calls |-> hb.calls + 1,
                   attempts |-> hb.attempts + r.attempts,
                   clients |-> hb.clients + Cardinality(r.client),
                   returned |-> Append(hb.returned, [ ok |-> r.ok, client |-> r.client ]) ]
  /\ UNCHANGED << doc, setup_dir, pc, config, result, props, handles, queue,
                  seen, events, arm, invoked, outcome, log >>

\* .await: the runner returns and Config::run returns what it returned
RunnerReturn ==
  /\ pc = "running"
  /\ \E o \in { "ok", "err" } :
       /\ outcome' = Some(o)
       /\ result' = o
       /\ log' = Append(log, Step("run", o = "ok"))
  /\ pc' = "done"
  /\ UNCHANGED << doc, setup_dir, config, props, handles, queue, seen, events,
                  arm, invoked, hb >>

NextLoad == LoadFile

SpecLoad == InitLoad /\ [][NextLoad]_vars

Next ==
  \/ LoadFile
  \/ SetTelemetry
  \/ A2TSkip
  \/ A2TChannel
  \/ A2TConnect
  \/ A2TSend
  \/ T2ASkip
  \/ T2AChannel
  \/ T2AConnect
  \/ T2ASend
  \/ T2AHello
  \/ ParentRecv
  \/ ParentDrop
  \/ ReportEvent
  \/ Dispatch
  \/ Invoke
  \/ RunnerInitHeartbeat
  \/ RunnerReturn

Spec == Init /\ [][Next]_vars

\* the steps of the bootstrap itself run one after the other to completion;
\* the runner may run for ever and the parent may do nothing
Bootstrap ==
  \/ LoadFile \/ SetTelemetry
  \/ A2TSkip \/ A2TChannel \/ A2TConnect \/ A2TSend
  \/ T2ASkip \/ T2AChannel \/ T2AConnect \/ T2ASend \/ T2AHello
  \/ ReportEvent \/ Dispatch \/ Invoke

FairSpec == Spec /\ WF_vars(Bootstrap)

\* ------------------------------------------------------------------------
\* Helpers of the properties
\* ------------------------------------------------------------------------
Indices(name) == { i \in DOMAIN log : log[i].step = name }
Happened(name, ok) == \E i \in DOMAIN log : log[i] = Step(name, ok)
Loaded == config # None

HandshakeSteps ==
  { "a2t_channel", "a2t_connect", "a2t_send",
    "t2a_channel", "t2a_connect", "t2a_send", "t2a_hello" }

\* the variants that own a tag, read off the declaration of the enum
Owns(v, tag) ==
  \E i \in DOMAIN VariantTable :
     /\ VariantTable[i].name = v
     /\ tag \in { VariantTable[i].name, VariantTable[i].alias }

\* ------------------------------------------------------------------------
\* C1: whenever from_file succeeds, the setup_dir of the CommonConfig of the
\* returned Config is the caller's setup_dir argument, whatever the document
\* held for setup_dir (a path or nothing), for every variant.
\* ------------------------------------------------------------------------
C1_SetupDirIsCallers ==
  Loaded => common(Cfg).setup_dir = setup_dir

\* a document whose own setup_dir differs from the caller's was loaded
C1_Witness ==
  /\ Loaded
  /\ doc.common.setup_dir # None
  /\ Unwrap(doc.common.setup_dir) # setup_dir
  /\ common(Cfg).setup_dir = setup_dir

\* ------------------------------------------------------------------------
\* C2: when the document has no task_type or one that is no variant's tag
\* or alias, from_file returns an error, no Config exists, and nothing of
\* the bootstrap (properties, handshake, event, dispatch) ever happens.
\* ------------------------------------------------------------------------
C2_UnknownTagFails ==
  ( /\ doc.kind = "json"
    /\ \/ doc.task_type = None
       \/ Unwrap(doc.task_type) \notin KnownTags
    /\ pc # "unstarted" )
  => /\ pc = "done"
     /\ result = "err"
     /\ config = None
     /\ props = << >> /\ events = << >> /\ arm = None /\ invoked = << >>
     /\ log = << Step("from_file", FALSE) >>

\* a document with a tag in the wrong case was rejected
C2_Witness ==
  /\ doc.kind = "json"
  /\ doc.task_type = Some("COVERAGE")
  /\ doc.payload_ok
  /\ pc = "done"
  /\ result = "err"
  /\ config = None

\* ------------------------------------------------------------------------
\* C3: for a document whose task_type is a variant's tag or alias and whose
\* payload is valid, from_file returns the variant that owns the tag, and
\* every CommonConfig field other than setup_dir has the document's value.
\* ------------------------------------------------------------------------
C3_KnownTagLoads ==
  ( /\ doc.kind = "json"
    /\ doc.task_type # None
    /\ Unwrap(doc.task_type) \in KnownTags
    /\ doc.payload_ok
    /\ doc.common.job_id # None
    /\ pc # "unstarted" )
  => /\ Loaded
     /\ Owns(Cfg.variant, Unwrap(doc.task_type))
     /\ Cfg.payload.exe = doc.exe
     /\ LET c == common(Cfg)
            d == doc.common
        IN  /\ Some(c.job_id) = d.job_id
            /\ c.task_id = d.task_id
            /\ c.instance_id = d.instance_id
            /\ c.heartbeat_queue = d.heartbeat_queue
            /\ c.machine_identity = d.machine_identity
            /\ c.from_agent_to_task_endpoint = d.from_agent_to_task_endpoint
            /\ c.from_task_to_agent_endpoint = d.from_task_to_agent_endpoint
            /\ d.min_available_memory_mb # None
                 => Some(c.min_available_memory_mb) = d.min_available_memory_mb

\* an alias was loaded as its variant, with the endpoints of the document
C3_Witness ==
  /\ Loaded
  /\ doc.task_type = Some("libfuzzer_crash_report")
  /\ Cfg.variant = "LibFuzzerReport"
  /\ common(Cfg).from_agent_to_task_endpoint = Some("a2t-server")
  /\ common(Cfg).min_available_memory_mb = 0

\* ------------------------------------------------------------------------
\* C4: when from_agent_to_task_endpoint is set and the connect to it fails,
\* Config::run ends in failure, no arm of the match is entered, no runner
\* is called, no heartbeat client exists and no task_start event is emitted.
\* ------------------------------------------------------------------------
C4_A2TConnectFailureStops ==
  Happened("a2t_connect", FALSE)
  => /\ common(Cfg).from_agent_to_task_endpoint # None
     /\ pc = "done"
     /\ result \in { "err", "panic" }
     /\ arm = None
     /\ invoked = << >>
     /\ outcome = None
     /\ hb.calls = 0 /\ hb.clients = 0
     /\ events = << >>

\* the connect to the agent->task endpoint failed
C4_Witness ==
  /\ Happened("a2t_channel", TRUE)
  /\ Happened("a2t_connect", FALSE)
  /\ pc = "done"
  /\ result = "panic"

\* ------------------------------------------------------------------------
\* C5: when both endpoints are absent, Config::run creates no channel,
\* attempts no connect and sends nothing, and it always reaches the
\* task_start event and the call of the runner of the active variant.
\* ------------------------------------------------------------------------
NoEndpoints ==
  /\ Loaded
  /\ common(Cfg).from_agent_to_task_endpoint = None
  /\ common(Cfg).from_task_to_agent_endpoint = None

C5_NoHandshakeSteps ==
  NoEndpoints
  => /\ \A i \in DOMAIN log : log[i].step \notin HandshakeSteps
     /\ \A h \in HandleNames : handles[h] = "none"
     /\ queue = << >> /\ seen = << >>

C5_RunnerReached ==
  /\ Loaded
  /\ Len(events) = 1
  /\ arm # None
  /\ invoked = << PayloadModule(Cfg.variant) >>

C5_NoEndpointsGoesToRunner ==
  /\ [] C5_NoHandshakeSteps
  /\ NoEndpoints ~> C5_RunnerReached

\* a configuration without endpoints reached its runner
C5_Witness ==
  /\ NoEndpoints
  /\ pc = "running"
  /\ C5_RunnerReached
  /\ C5_NoHandshakeSteps

\* ------------------------------------------------------------------------
\* C6: when from_task_to_agent_endpoint is set and the handshake succeeds,
\* the parent that holds the consumer handle it received finds exactly one
\* message, the placeholder, on the channel; the placeholder is sent after
\* the consumer handle was transmitted and before the runner is called, and
\* the bootstrap sends no second message.
\* ------------------------------------------------------------------------
Before(a, b) == \A i \in Indices(a), j \in Indices(b) : i < j

C6_OnePlaceholder ==
  /\ handles["receive_from_task"] = "parent"
       => /\ Happened("t2a_send", TRUE)
          /\ seen \o queue = IF pc = "t2a_hello" THEN << >> ELSE << Placeholder >>
  /\ Cardinality(Indices("t2a_hello")) <= 1
  /\ Len(seen) + Len(queue) <= 1
  /\ Indices("t2a_hello") # {}
       => /\ Happened("t2a_send", TRUE)
          /\ Before("t2a_send", "t2a_hello")
          /\ Before("t2a_hello", "invoke")
          /\ Before("t2a_hello", "dispatch")

\* the parent has read the placeholder and the runner is running
C6_Witness ==
  /\ handles["receive_from_task"] = "parent"
  /\ seen = << Placeholder >>
  /\ queue = << >>
  /\ pc = "running"

\* ------------------------------------------------------------------------
\* C7: when both endpoints are set, the three steps of the agent->task
\* handshake (channel, connect, producer handle sent) have all succeeded
\* before any step of the task->agent handshake is taken; no agent->task
\* step comes after a task->agent step.
\* ------------------------------------------------------------------------
A2TSteps == { "a2t_channel", "a2t_connect", "a2t_send" }
T2ASteps == { "t2a_channel", "t2a_connect", "t2a_send", "t2a_hello" }

C7_A2TBeforeT2A ==
  ( /\ Loaded
    /\ common(Cfg).from_agent_to_task_endpoint # None
    /\ common(Cfg).from_task_to_agent_endpoint # None )
  => \A k \in DOMAIN log :
       log[k].step \in T2ASteps
       => /\ \E i, j, l \in 1 .. (k - 1) :
               /\ i < j /\ j < l
               /\ log[i] = Step("a2t_channel", TRUE)
               /\ log[j] = Step("a2t_connect", TRUE)
               /\ log[l] = Step("a2t_send", TRUE)
          /\ \A m \in DOMAIN log : log[m].step \in A2TSteps => m < k

\* both handshakes were carried out
C7_Witness ==
  /\ Loaded
  /\ common(Cfg).from_agent_to_task_endpoint # None
  /\ Happened("a2t_send", TRUE)
  /\ Happened("t2a_send", TRUE)
  /\ Happened("t2a_hello", TRUE)

\* ------------------------------------------------------------------------
\* C8: the stage of the bootstrap only moves forward along Unstarted,
\* Configured, Lifecycle-initialized, Handshake-complete or -skipped,
\* Dispatched, Terminal; a failed load, channel creation, connect or handle
\* transmission ends in Terminal with a failure and without a runner call.
\* ------------------------------------------------------------------------
Stage ==
  CASE pc = "unstarted" -> "Unstarted"
    [] pc = "configured" -> "Configured"
    [] pc \in { "a2t", "a2t_connect", "a2t_send",
                "t2a", "t2a_connect", "t2a_send", "t2a_hello" } -> "LifecycleInitialized"
    [] pc \in { "report", "dispatch" } ->
          IF NoEndpoints THEN "HandshakeSkipped" ELSE "HandshakeComplete"
    [] pc \in { "arm", "running" } -> "Dispatched"
    [] pc = "done" -> "Terminal"

StageRank(st) ==
  CASE st = "Unstarted" -> 0
    [] st = "Configured" -> 1
    [] st = "LifecycleInitialized" -> 2
    [] st \in { "HandshakeSkipped", "HandshakeComplete" } -> 3
    [] st = "Dispatched" -> 4
    [] st = "Terminal" -> 5

PreDispatchSteps ==
  { "from_file", "a2t_channel", "a2t_connect", "a2t_send",
    "t2a_channel", "t2a_connect", "t2a_send" }

FailedBeforeDispatch ==
  \E i \in DOMAIN log : log[i].step \in PreDispatchSteps /\ ~log[i].ok

C8_StageStep ==
  /\ \/ Stage' = Stage
     \/ StageRank(Stage') = StageRank(Stage) + 1
     \/ /\ Stage' = "Terminal"
        /\ StageRank(Stage) < StageRank("Dispatched")
        /\ FailedBeforeDispatch'
  /\ FailedBeforeDispatch'
       => /\ Stage' = "Terminal"
          /\ result' \in { "err", "panic" }
          /\ arm' = None /\ invoked' = << >> /\ outcome' = None

C8_StagesOnlyAdvance == [][C8_StageStep]_vars

\* the second handshake failed after the first succeeded
C8_Witness ==
  /\ Happened("a2t_send", TRUE)
  /\ Happened("t2a_connect", FALSE)
  /\ pc = "done"
  /\ result = "panic"
  /\ invoked = << >>

\* ------------------------------------------------------------------------
\* C9: once the match is entered, Config::run calls one runner, that of the
\* active variant, once; what Config::run returns is what that runner
\* returned, success as success and error as error.
\* ------------------------------------------------------------------------
C9_OneRunnerOutcomeUnchanged ==
  /\ Len(invoked) <= 1
  /\ Cardinality(Indices("run")) <= 1
  /\ arm # None => Unwrap(arm).runner = PayloadModule(Cfg.variant)
  /\ invoked # << >> => arm # None /\ invoked = << Unwrap(arm).runner >>
  /\ (pc = "done" /\ arm # None)
       => /\ invoked = << PayloadModule(Cfg.variant) >>
          /\ outcome # None
          /\ result = Unwrap(outcome)
  /\ outcome # None => pc = "done" /\ arm # None

\* the runner of the libfuzzer report task returned an error
C9_Witness ==
  /\ pc = "done"
  /\ Loaded
  /\ Cfg.variant = "LibFuzzerReport"
  /\ invoked = << "report::libfuzzer_report" >>
  /\ outcome = Some("err")
  /\ result = "err"

\* ------------------------------------------------------------------------
\* C10: an execution of Config::run that goes past the handshake emits one
\* task_start event, after every handshake step and before the runner is
\* called; the event has a tool name exactly for GenericAnalysis and
\* GenericGenerator (the exe of the payload), and none otherwise.
\* ------------------------------------------------------------------------
ToolVariants == { "GenericAnalysis", "GenericGenerator" }

C10_OneTaskStart ==
  /\ Len(events) <= 1
  /\ Len(events) = Cardinality(Indices("task_start"))
  /\ pc \in { "dispatch", "arm", "running" } => Len(events) = 1
  /\ (arm # None \/ invoked # << >>) => Len(events) = 1
  /\ \A s \in HandshakeSteps : Before(s, "task_start")
  /\ Before("task_start", "dispatch") /\ Before("task_start", "invoke")
  /\ \A i \in DOMAIN events :
       /\ events[i].event = "task_start"
       /\ (events[i].tool_name # None) <=> (Cfg.variant \in ToolVariants)
       /\ Cfg.variant \in ToolVariants => events[i].tool_name = Some(Cfg.payload.exe)

\* the analysis task was dispatched after a handshake, with its tool named
C10_Witness ==
  /\ Loaded
  /\ Cfg.variant = "GenericAnalysis"
  /\ Happened("t2a_hello", TRUE)
  /\ events = << [ event |-> "task_start", type |-> "generic_analysis",
                   tool_name |-> Some("gen.exe") ] >>
  /\ invoked = << "analysis::generic" >>

\* ------------------------------------------------------------------------
\* C11: init_heartbeat returns Ok(None), without an attempt on the
\* transport, when heartbeat_queue is absent; when it is present each call
\* makes one construction attempt and returns that client or the error.
\* ------------------------------------------------------------------------
C11_InitHeartbeat ==
  /\ Len(hb.returned) = hb.calls
  /\ hb.calls > 0 =>
       IF common(Cfg).heartbeat_queue = None
       THEN /\ hb.attempts = 0
            /\ hb.clients = 0
            /\ \A i \in DOMAIN hb.returned :
                 hb.returned[i] = [ ok |-> TRUE, client |-> None ]
       ELSE /\ hb.attempts = hb.calls
            /\ \A i \in DOMAIN hb.returned :
                 \/ hb.returned[i] = [ ok |-> TRUE, client |-> common(Cfg).heartbeat_queue ]
                 \/ hb.returned[i] = [ ok |-> FALSE, client |-> None ]
            /\ hb.clients =
                 Cardinality({ i \in DOMAIN hb.returned : hb.returned[i].ok })

\* a runner without heartbeat_queue asked for its heartbeat client
C11_Witness ==
  /\ Loaded
  /\ common(Cfg).heartbeat_queue = None
  /\ hb.calls = 1
  /\ hb.returned = << [ ok |-> TRUE, client |-> None ] >>

\* a runner with heartbeat_queue could not reach the transport
C11_WitnessError ==
  /\ Loaded
  /\ common(Cfg).heartbeat_queue # None
  /\ hb.attempts = 1
  /\ hb.returned = << [ ok |-> FALSE, client |-> None ] >>

\* ------------------------------------------------------------------------
\* C12: after loading, min_available_memory_mb is 100 when the document
\* omits it, and the document's value, 0 included, when it gives one.
\* ------------------------------------------------------------------------
C12_MinAvailableMemory ==
  Loaded =>
    IF doc.common.min_available_memory_mb = None
    THEN common(Cfg).min_available_memory_mb = 100
    ELSE Some(common(Cfg).min_available_memory_mb) = doc.common.min_available_memory_mb

\* a document that sets the limit to 0 was loaded
C12_Witness ==
  /\ Loaded
  /\ doc.common.min_available_memory_mb = Some(0)
  /\ common(Cfg).min_available_memory_mb = 0

\* ------------------------------------------------------------------------
\* C13: the event type of the task_start event is the task_type tag of the
\* dispatched variant itself, so that two variants never share one.
\* ------------------------------------------------------------------------
C13_EventTypeIsOwnTag ==
  \A i \in DOMAIN events : Owns(Cfg.variant, events[i].type)

\* ------------------------------------------------------------------------
\* C14: in each configured direction the handle this process keeps after a
\* successful handshake (receive_from_agent, task_sender) is still held by
\* this process when the runner is dispatched and while it runs.
\* ------------------------------------------------------------------------
C14_KeptHandlesStayOpen ==
  (Loaded /\ pc \in { "arm", "running" })
  => /\ common(Cfg).from_agent_to_task_endpoint # None
          => handles["receive_from_agent"] = "task"
     /\ common(Cfg).from_task_to_agent_endpoint # None
          => handles["task_sender"] = "task"

\* ------------------------------------------------------------------------
\* C15: when both endpoints are set, the agent->task handshake succeeds and
\* the connect or the handle transmission of the task->agent handshake
\* fails, startup ends in failure without task_start event and without a
\* runner call, and the producer handle the parent received stays with it.
\* ------------------------------------------------------------------------
C15_SecondHandshakeFails ==
  ( /\ Happened("a2t_send", TRUE)
    /\ Happened("t2a_connect", FALSE) \/ Happened("t2a_send", FALSE) )
  => /\ pc = "done"
     /\ result \in { "err", "panic" }
     /\ events = << >>
     /\ arm = None /\ invoked = << >> /\ outcome = None
     /\ handles["agent_sender"] = "parent"

\* the handle transmission of the second handshake failed
C15_Witness ==
  /\ Happened("a2t_send", TRUE)
  /\ Happened("t2a_connect", TRUE)
  /\ Happened("t2a_send", FALSE)
  /\ handles["agent_sender"] = "parent"
  /\ pc = "done"

\* ------------------------------------------------------------------------
\* C16: no connect and no handle transmission is retried: each endpoint
\* gets at most one connect attempt and one handle transmission, and the
\* first failure of one of them is the last step of a failed startup.
\* ------------------------------------------------------------------------
ConnectAndSendSteps == { "a2t_connect", "a2t_send", "t2a_connect", "t2a_send" }

C16_NoRetry ==
  /\ \A s \in ConnectAndSendSteps : Cardinality(Indices(s)) <= 1
  /\ \A i \in DOMAIN log :
       (log[i].step \in ConnectAndSendSteps /\ ~log[i].ok)
       => /\ i = Len(log)
          /\ pc = "done"
          /\ result \in { "err", "panic" }

\* the connect of the second handshake failed after one attempt
C16_Witness ==
  /\ Happened("a2t_connect", TRUE)
  /\ Happened("t2a_connect", FALSE)
  /\ Cardinality(Indices("t2a_connect")) = 1
  /\ pc = "done"

\* ------------------------------------------------------------------------
\* C17: in every execution of Config::run the properties JobId, TaskId,
\* MachineId, Version, InstanceId and Role are set once each, ScalesetId
\* once exactly when machine_identity.scaleset_name is present, all before
\* the first handshake step, the task_start event and the runner call, and
\* none is set again.
\* ------------------------------------------------------------------------
PropertyCount(k) == Cardinality({ i \in DOMAIN props : props[i].key = k })

FixedProperties == { "JobId", "TaskId", "MachineId", "Version", "InstanceId", "Role" }

C17_PropertiesSetOnce ==
  /\ pc \in { "unstarted", "configured" } => props = << >>
  /\ ~Loaded => props = << >>
  /\ (Loaded /\ pc \notin { "unstarted", "configured" })
       => /\ \A k \in FixedProperties : PropertyCount(k) = 1
          /\ PropertyCount("ScalesetId") =
               IF common(Cfg).machine_identity.scaleset_name # None THEN 1 ELSE 0
          /\ \A i \in DOMAIN props : props[i].key \in FixedProperties \cup { "ScalesetId" }
          /\ Cardinality(Indices("set_properties")) = 1
  /\ \A s \in HandshakeSteps \cup { "task_start", "dispatch", "invoke", "run" } :
       /\ Before("set_properties", s)
       /\ Indices(s) # {} => Indices("set_properties") # {}

\* a runner runs on a machine without scaleset, after a handshake
C17_Witness ==
  /\ Loaded
  /\ common(Cfg).machine_identity.scaleset_name = None
  /\ Len(props) = 6
  /\ Happened("a2t_send", TRUE)
  /\ pc = "running"

\* ------------------------------------------------------------------------
\* C18: the Config is changed once, by the setup_dir override in from_file;
\* no step of Config::run changes it, and the payload the arm hands to the
\* runner is the payload of the value from_file returned.
\* ------------------------------------------------------------------------
C18_Step ==
  /\ pc # "unstarted" => config' = config
  /\ (pc = "unstarted" /\ config' # None)
       => /\ common(Unwrap(config')).setup_dir = setup_dir
          /\ \E dir \in Paths \cup { EmptyPath } :
               [ Unwrap(config') EXCEPT !.payload.common.setup_dir = dir ]
                 = DeserializeConfig(doc).value
  /\ arm' # None => Unwrap(arm').config = Unwrap(config').payload

C18_ConfigUnchangedByRun == [][C18_Step]_vars

\* the arm holds the payload from_file returned, after telemetry and handshake
C18_Witness ==
  /\ Loaded
  /\ arm # None
  /\ Unwrap(arm).config = Cfg.payload
  /\ Unwrap(arm).config.common.setup_dir = setup_dir
  /\ doc.common.setup_dir # Some(setup_dir)
  /\ common(Cfg).machine_identity.scaleset_name # None
  /\ Happened("t2a_hello", TRUE)
  /\ pc = "running"

\* ------------------------------------------------------------------------
\* C19: for LibFuzzerFuzz and LibFuzzerDotnetFuzz, a construction error
\* makes Config::run return that error without calling the runner's run;
\* by then the task_start event has been emitted once and every configured
\* handshake has been completed.
\* ------------------------------------------------------------------------
FallibleVariants == { "LibFuzzerFuzz", "LibFuzzerDotnetFuzz" }

C19_ConstructionError ==
  Happened("invoke", FALSE)
  => /\ Cfg.variant \in FallibleVariants
     /\ pc = "done"
     /\ result = "err"
     /\ outcome = Some("err")
     /\ Indices("run") = {}
     /\ hb.calls = 0
     /\ Len(events) = 1
     /\ Before("task_start", "invoke")
     /\ common(Cfg).from_agent_to_task_endpoint # None
          => Happened("a2t_send", TRUE) /\ Before("a2t_send", "invoke")
     /\ common(Cfg).from_task_to_agent_endpoint # None
          => /\ Happened("t2a_send", TRUE)
             /\ Indices("t2a_hello") # {}
             /\ Before("t2a_hello", "invoke")

\* the dotnet fuzz task could not be constructed after both handshakes
C19_Witness ==
  /\ Loaded
  /\ Cfg.variant = "LibFuzzerDotnetFuzz"
  /\ Happened("a2t_send", TRUE)
  /\ Happened("t2a_send", TRUE)
  /\ Happened("invoke", FALSE)
  /\ Len(events) = 1
  /\ result = "err"

\* ------------------------------------------------------------------------
\* C20: when the send of the placeholder fails after the consumer handle
\* was transmitted, startup is not aborted: Config::run goes on to emit the
\* task_start event and to call the runner.
\* ------------------------------------------------------------------------
C20_HelloFailed == Happened("t2a_send", TRUE) /\ Happened("t2a_hello", FALSE)

C20_NotAborted ==
  C20_HelloFailed
  => /\ result # "panic"
     /\ pc = "done" => (arm # None /\ invoked # << >>)

C20_Dispatched ==
  /\ C20_HelloFailed
  /\ Len(events) = 1
  /\ invoked # << >>

C20_PlaceholderFailureIgnored ==
  /\ [] C20_NotAborted
  /\ C20_HelloFailed ~> C20_Dispatched

\* the runner runs although the placeholder could not be sent
C20_Witness ==
  /\ C20_HelloFailed
  /\ handles["receive_from_task"] = "dropped"
  /\ queue = << >>
  /\ Len(events) = 1
  /\ pc = "running"
====
